---- MODULE Spec2Model ----
(***************************************************************************)
(* Model of the signup backend (backend/server.js: Express + one shared    *)
(* mysql2 connection + bcryptjs) and of the React auth form that posts to  *)
(* it.  The store is the `users` table behind a single connection whose    *)
(* commands execute in the order they were issued; every request handler   *)
(* is split at its awaits.                                                 *)
(***************************************************************************)
EXTENDS Integers, Sequences, FiniteSets, TLC

(* ---------------------------- bounds ----------------------------------- *)
\* number of requests the server receives in one run
MaxReq == 2
\* number of store queries that fail with an error other than duplicate key
MaxFail == 1

(* ------------------------ program constants ---------------------------- *)
MinPasswordLen == 6

Undefined == "<undefined>"

Slots == 1..MaxReq

Emails == {"ana@x.com", "bob@x.com"}
GoodPasswords == {"secret1", "s3cret-two"}

VARIABLES
  proc,         \* "running" | "exited"
  exitCode,     \* exit status of the process once exited
  listening,    \* app.listen has bound the port
  conn,         \* state of the shared connection db: "connecting" | "connected"
  tableExists,  \* the users table exists in the database
  users,        \* rows of the users table
  nextId,       \* AUTO_INCREMENT counter of users.id
  dbQueue,      \* commands issued on db and not yet executed, in issue order
  reqs,         \* one entry per request slot: position of its handler and its response
  log,          \* everything written with console.log / console.error
  fails         \* number of store failures injected so far

vars == <<proc, exitCode, listening, conn, tableExists, users, nextId,
          dbQueue, reqs, log, fails>>

(* --------------------------- pure helpers ------------------------------ *)
\* property read of a JSON body: an absent key reads as undefined
Get(body, k) == IF k \in DOMAIN body THEN body[k] ELSE Undefined

\* JavaScript !v for the string-or-undefined values of a body
Falsy(v) == v = Undefined \/ v = ""

\* the string values carried by a JSON body
Values(body) == {body[k] : k \in DOMAIN body}

\* bcrypt.hash(password, 10): a "$2a$10$..." digest, never the plaintext
Hash(p) == "$2a$10$" \o p

\* route table of the Express app; anything else falls to the 404 handler
Route(method, path) ==
  IF method = "POST" /\ path = "/signup" THEN "signup"
  ELSE IF method = "GET" /\ path = "/users" THEN "users"
  ELSE IF method = "GET" /\ path = "/create-users-table" THEN "createTable"
  ELSE "notFound"

(* ----------------------------- client form ----------------------------- *)
\* handleSubmit's validation: the three early returns
FormValid(isSignIn, fd) ==
  /\ ~(~isSignIn /\ Falsy(fd.username))
  /\ ~(Falsy(fd.email) \/ Falsy(fd.password))
  /\ ~(~isSignIn /\ Len(fd.password) < MinPasswordLen)

FormEndpoint(isSignIn) == IF isSignIn THEN "/signin" ELSE "/signup"

FormPayload(isSignIn, fd) ==
  IF isSignIn
  THEN [email |-> fd.email, password |-> fd.password]
  ELSE [username |-> fd.username, email |-> fd.email, password |-> fd.password]

(* ------------------------------ requests ------------------------------- *)
NoBody == [none |-> ""]

IdleReq == [pc |-> "idle", method |-> "", path |-> "", body |-> NoBody,
            src |-> "", signIn |-> FALSE,
            status |-> 0, text |-> "", id |-> 0, strs |-> {},
            nresp |-> 0, arr |-> 0, at |-> 0, nsel |-> 0, nins |-> 0,
            err |-> "", hashed |-> ""]

Done == {i \in Slots : reqs[i].pc = "done"}

\* res.status(s).json(...): the response of a request, sent once
Respond(r, s, text, id, strs) ==
  [r EXCEPT !.pc = "done", !.status = s, !.text = text, !.id = id,
            !.strs = strs, !.nresp = @ + 1, !.at = Cardinality(Done) + 1]

Init ==
  /\ proc = "running"
  /\ exitCode = 0
  /\ listening = FALSE
  /\ conn = "connecting"
  /\ tableExists \in BOOLEAN
  /\ users = {}
  /\ nextId = 1
  /\ dbQueue = <<>>
  /\ reqs = [i \in Slots |-> IdleReq]
  /\ log = {}
  /\ fails = 0

LogAdd(msg, args) == log \cup {[msg |-> msg, args |-> args]}

Running == proc = "running"

(* ------------------------------ the store ------------------------------ *)
\* SELECT id FROM users WHERE email = ?
Existing(email) == {u \in users : u.email = email}

\* the table without its unique index on email
DupKey_NoIndex(email) == FALSE

\* email VARCHAR(255) UNIQUE: an insert of a present email is a duplicate key
DupKey(email) == \E u \in users : u.email = email

\* a counter that does not advance
AutoIncrement_Stuck(n) == n

\* id INT AUTO_INCREMENT: the counter after an insert took the value n
AutoIncrement(n) == n + 1

\* SELECT id, full_name, email, created_at FROM users: no password column
UserProjection(u) == {u.full_name, u.email}

\* error of a query on the users table; failed: the store itself failed
QueryError(failed) ==
  IF failed THEN "ER_OTHER"
  ELSE IF ~tableExists THEN "ER_NO_SUCH_TABLE"
  ELSE ""

ErrMessage(code) ==
  IF code = "ER_DUP_ENTRY" THEN "Duplicate entry for key 'email'"
  ELSE IF code = "ER_NO_SUCH_TABLE" THEN "Table 'users' doesn't exist"
  ELSE "Connection lost: The server closed the connection."

\* a command issued with executeQuery joins the queue of the connection
Enqueue(kind, i) == Append(dbQueue, [kind |-> kind, req |-> i])

HeadIs(kind) ==
  /\ Running /\ conn = "connected"
  /\ dbQueue # <<>>
  /\ Head(dbQueue).kind = kind

\* the store may fail a query, at most MaxFail times in a run
Failure(failed) ==
  /\ failed => fails < MaxFail
  /\ fails' = IF failed THEN fails + 1 ELSE fails

(* ------------------------------- startup ------------------------------- *)
\* app.listen(PORT, cb)
Listen ==
  /\ Running /\ ~listening
  /\ listening' = TRUE
  /\ log' = LogAdd("Server running on port", {})
  /\ UNCHANGED <<proc, exitCode, conn, tableExists, users, nextId, dbQueue, reqs, fails>>

\* db.connect callback without error: log, then initializeDatabase issues
\* CREATE TABLE IF NOT EXISTS users behind the queries already issued
Connect ==
  /\ Running /\ conn = "connecting"
  /\ conn' = "connected"
  /\ log' = LogAdd("Connected to MySQL Database!", {})
  /\ dbQueue' = Enqueue("initCreate", 0)
  /\ UNCHANGED <<proc, exitCode, listening, tableExists, users, nextId, reqs, fails>>

\* db.connect callback with an error: process.exit(1)
ConnectFail ==
  /\ Running /\ conn = "connecting"
  /\ log' = LogAdd("Database connection failed:", {"ECONNREFUSED"})
  /\ proc' = "exited"
  /\ exitCode' = 1
  /\ UNCHANGED <<listening, conn, tableExists, users, nextId, dbQueue, reqs, fails>>

\* initializeDatabase: the CREATE TABLE query completes; an error is logged
\* and swallowed
InitCreateDone ==
  /\ HeadIs("initCreate")
  /\ \E failed \in BOOLEAN :
       /\ Failure(failed)
       /\ tableExists' = (tableExists \/ ~failed)
       /\ log' = IF failed
                 THEN LogAdd("Database initialization error:", {"ER_OTHER"})
                 ELSE LogAdd("Users table checked/created successfully!", {})
  /\ dbQueue' = Tail(dbQueue)
  /\ UNCHANGED <<proc, exitCode, listening, conn, users, nextId, reqs>>

(* ------------------------------ handlers ------------------------------- *)
\* validation that asks for 8 characters
SignupInvalid_Min8(body) ==
  IF Falsy(Get(body, "full_name")) \/ Falsy(Get(body, "email"))
     \/ Falsy(Get(body, "password"))
  THEN "Full name, email and password are required"
  ELSE IF Len(Get(body, "password")) < 8
  THEN "Password must be at least 6 characters"
  ELSE ""

\* validation without the length check
SignupInvalid_NoLength(body) ==
  IF Falsy(Get(body, "full_name")) \/ Falsy(Get(body, "email"))
     \/ Falsy(Get(body, "password"))
  THEN "Full name, email and password are required"
  ELSE ""

\* the two validation returns of POST /signup: "" when the body passes
SignupInvalid(body) ==
  IF Falsy(Get(body, "full_name")) \/ Falsy(Get(body, "email"))
     \/ Falsy(Get(body, "password"))
  THEN "Full name, email and password are required"
  ELSE IF Len(Get(body, "password")) < MinPasswordLen
  THEN "Password must be at least 6 characters"
  ELSE ""

\* POST /signup up to its first await: log the body, validate, issue the
\* existence check
SignupHandler(i, r) ==
  /\ log' = LogAdd("Received signup request:", Values(r.body))
  /\ IF SignupInvalid(r.body) # ""
     THEN /\ reqs' = [reqs EXCEPT ![i] = Respond(r, 400, SignupInvalid(r.body), 0, {})]
          /\ dbQueue' = dbQueue
     ELSE /\ reqs' = [reqs EXCEPT ![i] = [r EXCEPT !.pc = "select", !.nsel = @ + 1]]
          /\ dbQueue' = Enqueue("select", i)

\* GET /users up to its await
UsersHandler(i, r) ==
  /\ reqs' = [reqs EXCEPT ![i] = [r EXCEPT !.pc = "list"]]
  /\ dbQueue' = Enqueue("list", i)
  /\ log' = log

\* GET /create-users-table up to its await
CreateTableHandler(i, r) ==
  /\ reqs' = [reqs EXCEPT ![i] = [r EXCEPT !.pc = "create"]]
  /\ dbQueue' = Enqueue("create", i)
  /\ log' = log

\* app.use((req, res) => res.status(404)...)
NotFoundHandler(i, r) ==
  /\ reqs' = [reqs EXCEPT ![i] = Respond(r, 404, "Route not found", 0, {})]
  /\ dbQueue' = dbQueue
  /\ log' = log

Dispatch(i, r) ==
  LET h == Route(r.method, r.path) IN
  /\ Running /\ listening
  /\ reqs[i].pc = "idle"
  /\ \A j \in Slots : j < i => reqs[j].pc # "idle"
  /\ CASE h = "signup" -> SignupHandler(i, r)
       [] h = "users" -> UsersHandler(i, r)
       [] h = "createTable" -> CreateTableHandler(i, r)
       [] OTHER -> NotFoundHandler(i, r)
  /\ UNCHANGED <<proc, exitCode, listening, conn, tableExists, users, nextId, fails>>

(* ------------------------- incoming requests --------------------------- *)
\* bodies a caller of the API may post to /signup
ValidBodies ==
  {[full_name |-> "Ana", email |-> e, password |-> p] :
     e \in Emails, p \in GoodPasswords}

InvalidBodies ==
  { [email |-> "ana@x.com", password |-> "secret1"],
    [full_name |-> "", email |-> "ana@x.com", password |-> "secret1"],
    [full_name |-> "Ana", password |-> "secret1"],
    [full_name |-> "Ana", email |-> "", password |-> "secret1"],
    [full_name |-> "Ana", email |-> "ana@x.com"],
    [full_name |-> "Ana", email |-> "ana@x.com", password |-> ""],
    [full_name |-> "Ana", email |-> "ana@x.com", password |-> "abc"] }

ApiRequests ==
  {[method |-> "POST", path |-> "/signup", body |-> b] :
     b \in ValidBodies \cup InvalidBodies}
  \cup {[method |-> "GET", path |-> "/users", body |-> NoBody],
        [method |-> "GET", path |-> "/create-users-table", body |-> NoBody]}

\* what a user may have typed into the form
FormInputs ==
  {[username |-> u, email |-> e, password |-> p] :
     u \in {"", "ana"}, e \in {"ana@x.com"}, p \in {"abc", "secret1", "s3cret-two"}}

\* a request sent by any HTTP client
ApiRequest(i) ==
  \E q \in ApiRequests :
    Dispatch(i, [IdleReq EXCEPT !.method = q.method, !.path = q.path,
                                !.body = q.body, !.src = "api",
                                !.arr = Cardinality(Done)])

\* handleSubmit of the form: validate, then axios.post(endpoint, payload)
ClientSubmit(i) ==
  \E isSignIn \in BOOLEAN, fd \in FormInputs :
    /\ FormValid(isSignIn, fd)
    /\ Dispatch(i, [IdleReq EXCEPT !.method = "POST",
                                   !.path = FormEndpoint(isSignIn),
                                   !.body = FormPayload(isSignIn, fd),
                                   !.src = "form", !.signIn = isSignIn,
                                   !.arr = Cardinality(Done)])

(* ------------------------ continuations of /signup --------------------- *)
\* existingUser.length > 0
ExistingUserResponse(r) ==
  Respond(r, 409, "User already exists with this email", 0, {})

\* a catch block without the duplicate-key case
SignupCatch_NoDup(r, code) ==
  IF code = "ER_NO_SUCH_TABLE"
  THEN Respond(r, 500, "Database table not found. Please contact administrator.", 0, {})
  ELSE Respond(r, 500, "Registration failed: " \o ErrMessage(code), 0, {})

\* a catch block that reports every error as a duplicate
SignupCatch_AllDup(r, code) ==
  Respond(r, 409, "Email already exists", 0, {})

\* the catch block of POST /signup
SignupCatch(r, code) ==
  IF code = "ER_DUP_ENTRY"
  THEN Respond(r, 409, "Email already exists", 0, {})
  ELSE IF code = "ER_NO_SUCH_TABLE"
  THEN Respond(r, 500, "Database table not found. Please contact administrator.", 0, {})
  ELSE Respond(r, 500, "Registration failed: " \o ErrMessage(code), 0, {})

\* the existence check completes
SelectDone ==
  /\ HeadIs("select")
  /\ LET i == Head(dbQueue).req
         r == reqs[i]
         email == Get(r.body, "email")
     IN \E failed \in BOOLEAN :
          LET err == QueryError(failed) IN
          /\ Failure(failed)
          /\ IF err # ""
             THEN /\ log' = LogAdd("Signup error details:", {err, email})
                  /\ reqs' = [reqs EXCEPT ![i] = SignupCatch([r EXCEPT !.err = err], err)]
             ELSE /\ log' = log
                  /\ reqs' = [reqs EXCEPT ![i] =
                                IF Existing(email) # {}
                                THEN ExistingUserResponse(r)
                                ELSE [r EXCEPT !.pc = "hash"]]
  /\ dbQueue' = Tail(dbQueue)
  /\ UNCHANGED <<proc, exitCode, listening, conn, tableExists, users, nextId>>

\* bcrypt.hash resolves and the handler issues the INSERT
HashDone(i) ==
  /\ Running
  /\ reqs[i].pc = "hash"
  /\ LET r == reqs[i] IN
       reqs' = [reqs EXCEPT ![i] = [r EXCEPT !.pc = "insert", !.nins = @ + 1,
                                             !.hashed = Hash(Get(r.body, "password"))]]
  /\ dbQueue' = Enqueue("insert", i)
  /\ UNCHANGED <<proc, exitCode, listening, conn, tableExists, users, nextId, log, fails>>

\* error of INSERT INTO users (full_name, email, password)
InsertError(failed, email) ==
  IF QueryError(failed) # "" THEN QueryError(failed)
  ELSE IF DupKey(email) THEN "ER_DUP_ENTRY"
  ELSE ""

\* the INSERT completes.  A rejected duplicate still consumes a counter
\* value (InnoDB allocates the id before it checks the unique index).
InsertDone ==
  /\ HeadIs("insert")
  /\ LET i == Head(dbQueue).req
         r == reqs[i]
         full_name == Get(r.body, "full_name")
         email == Get(r.body, "email")
     IN \E failed \in BOOLEAN :
          LET err == InsertError(failed, email) IN
          /\ Failure(failed)
          /\ IF err # ""
             THEN /\ log' = LogAdd("Signup error details:",
                                   {err, full_name, email, r.hashed})
                  /\ reqs' = [reqs EXCEPT ![i] = SignupCatch([r EXCEPT !.err = err], err)]
                  /\ users' = users
                  /\ nextId' = IF err = "ER_DUP_ENTRY" THEN AutoIncrement(nextId) ELSE nextId
             ELSE /\ users' = users \cup {[id |-> nextId, full_name |-> full_name,
                                           email |-> email, password |-> r.hashed]}
                  /\ nextId' = AutoIncrement(nextId)
                  /\ log' = LogAdd("User created successfully with ID:", {ToString(nextId)})
                  /\ reqs' = [reqs EXCEPT ![i] =
                                Respond(r, 201, "User registered successfully!",
                                        nextId, {full_name, email})]
  /\ dbQueue' = Tail(dbQueue)
  /\ UNCHANGED <<proc, exitCode, listening, conn, tableExists>>

(* ------------------------- the other endpoints ------------------------- *)
\* GET /users completes
ListDone ==
  /\ HeadIs("list")
  /\ LET i == Head(dbQueue).req
         r == reqs[i]
     IN \E failed \in BOOLEAN :
          LET err == QueryError(failed) IN
          /\ Failure(failed)
          /\ IF err # ""
             THEN /\ log' = LogAdd("Get users error:", {err})
                  /\ reqs' = [reqs EXCEPT ![i] =
                                Respond([r EXCEPT !.err = err], 500, "Failed to fetch users", 0, {})]
             ELSE /\ log' = log
                  /\ reqs' = [reqs EXCEPT ![i] =
                                Respond(r, 200, "", 0, UNION {UserProjection(u) : u \in users})]
  /\ dbQueue' = Tail(dbQueue)
  /\ UNCHANGED <<proc, exitCode, listening, conn, tableExists, users, nextId>>

\* GET /create-users-table completes
ManualCreateDone ==
  /\ HeadIs("create")
  /\ LET i == Head(dbQueue).req
         r == reqs[i]
     IN \E failed \in BOOLEAN :
          /\ Failure(failed)
          /\ tableExists' = (tableExists \/ ~failed)
          /\ IF failed
             THEN /\ log' = LogAdd("Table creation error:", {"ER_OTHER"})
                  /\ reqs' = [reqs EXCEPT ![i] =
                                Respond([r EXCEPT !.err = "ER_OTHER"], 500, "Table creation failed", 0, {})]
             ELSE /\ log' = log
                  /\ reqs' = [reqs EXCEPT ![i] = Respond(r, 200, "Users table ready!", 0, {})]
  /\ dbQueue' = Tail(dbQueue)
  /\ UNCHANGED <<proc, exitCode, listening, conn, users, nextId>>

Next ==
  \/ Listen
  \/ Connect
  \/ ConnectFail
  \/ InitCreateDone
  \/ \E i \in Slots : ApiRequest(i)
  \/ \E i \in Slots : ClientSubmit(i)
  \/ SelectDone
  \/ \E i \in Slots : HashDone(i)
  \/ InsertDone
  \/ ListDone
  \/ ManualCreateDone

Spec == Init /\ [][Next]_vars

(* ============================== properties ============================= *)
Arrived == {i \in Slots : reqs[i].pc # "idle"}

IsSignup(r) == r.method = "POST" /\ r.path = "/signup"
IsSignin(r) == r.method = "POST" /\ r.path = "/signin"

EmailOf(r) == Get(r.body, "email")
PasswordOf(r) == Get(r.body, "password")

\* the fields the signup contract asks for: all three present and non-empty,
\* a password of at least six characters
WellFormed(body) ==
  /\ \A k \in {"full_name", "email", "password"} : k \in DOMAIN body /\ body[k] # ""
  /\ Len(body["password"]) >= 6

Registered(email) == \E u \in users : u.email = email

\* request i enters its handler in this step
Arrives(i) == reqs[i].pc = "idle" /\ reqs'[i].pc # "idle"
\* request i is answered in this step
Answered(i) == reqs[i].pc # "done" /\ reqs'[i].pc = "done"

StoreFailures == {"ER_OTHER", "ER_NO_SUCH_TABLE"}

(* C1, as stated: a POST /signup whose email is the email of a record      *)
(* already in the users table is answered 409 and inserts no record,       *)
(* whatever its password and name are.                                     *)
C1_AlwaysConflict ==
  [][\A i \in Slots :
       (Answered(i) /\ IsSignup(reqs'[i]) /\ Registered(EmailOf(reqs'[i])))
         => (reqs'[i].status = 409 /\ users' = users)]_vars

(* C1, amended: a POST /signup whose email is already registered inserts   *)
(* no record; it is answered 400 when its fields fail validation, and      *)
(* otherwise 409, unless a store query of it fails with an error other     *)
(* than a duplicate key (500).                                             *)
C1_ConflictWhenValid ==
  [][\A i \in Slots :
       (Answered(i) /\ IsSignup(reqs'[i]) /\ Registered(EmailOf(reqs'[i])))
         => /\ users' = users
            /\ IF ~WellFormed(reqs'[i].body) THEN reqs'[i].status = 400
               ELSE IF reqs'[i].err \in StoreFailures THEN reqs'[i].status = 500
               ELSE reqs'[i].status = 409]_vars

\* a valid signup for a registered email, with another password than the
\* registered one, was answered 409 by the existence check
C1_Witness ==
  \E i \in Slots :
    /\ IsSignup(reqs[i]) /\ reqs[i].status = 409 /\ reqs[i].nins = 0
    /\ \E u \in users : u.email = EmailOf(reqs[i])
                        /\ u.password # Hash(PasswordOf(reqs[i]))

(* C2: no two records of the users table have the same email, and an       *)
(* insert whose email is already present leaves the table unchanged and,   *)
(* unless the store itself failed the query, ends in a duplicate-key error.*)
C2_UniqueEmail ==
  [][/\ \A u, v \in users' : u.email = v.email => u = v
     /\ \A i \in Slots :
          (reqs[i].pc = "insert" /\ Answered(i) /\ Registered(EmailOf(reqs[i])))
            => /\ users' = users
               /\ reqs'[i].err \in {"ER_DUP_ENTRY", "ER_OTHER"}]_vars

\* an insert was rejected as a duplicate while the email has its one record
C2_Witness ==
  \E i \in Slots :
    /\ reqs[i].err = "ER_DUP_ENTRY"
    /\ Cardinality({u \in users : u.email = EmailOf(reqs[i])}) = 1

(* C3, as stated: the plaintext password of a signup request is never      *)
(* written to the users table, never written to the server log and never   *)
(* part of a response.                                                     *)
C3_NoPlaintext ==
  \A i \in Arrived :
    (IsSignup(reqs[i]) /\ ~Falsy(PasswordOf(reqs[i])))
      => /\ \A u \in users : u.password # PasswordOf(reqs[i])
         /\ \A e \in log : PasswordOf(reqs[i]) \notin e.args
         /\ \A j \in Slots : /\ PasswordOf(reqs[i]) \notin reqs[j].strs
                             /\ reqs[j].text # PasswordOf(reqs[i])

(* C4, as stated: the sign-in request of the form is answered 200 when     *)
(* a record with its email and password exists, and 401 otherwise.         *)
C4_LoginAnswers ==
  [][\A i \in Slots :
       (Answered(i) /\ IsSignin(reqs'[i]))
         => reqs'[i].status =
              IF \E u \in users : /\ u.email = EmailOf(reqs'[i])
                                  /\ u.password = Hash(PasswordOf(reqs'[i]))
              THEN 200 ELSE 401]_vars

(* C5: a POST /signup in which full_name, email or password is missing or  *)
(* empty, or whose password has fewer than 6 characters, is answered 400   *)
(* in the step it arrives, without a query: the table and the queue of the *)
(* connection are unchanged and it never issues a SELECT or an INSERT.     *)
C5_InvalidNoQuery ==
  [][\A i \in Slots :
       /\ (Arrives(i) /\ IsSignup(reqs'[i]) /\ ~WellFormed(reqs'[i].body))
            => /\ reqs'[i].pc = "done" /\ reqs'[i].status = 400
               /\ reqs'[i].nsel = 0 /\ reqs'[i].nins = 0
               /\ users' = users /\ dbQueue' = dbQueue
       /\ reqs[i].pc = "done" => reqs'[i] = reqs[i]]_vars

\* a signup with a 3-character password was answered 400 while a record
\* exists that it could have collided with
C5_Witness ==
  \E i \in Slots :
    /\ IsSignup(reqs[i]) /\ PasswordOf(reqs[i]) = "abc"
    /\ reqs[i].status = 400 /\ reqs[i].nsel = 0
    /\ users # {}

(* C6, as stated, for requests none of whose queries the store itself     *)
(* fails: every valid signup whose email differs from the email of every   *)
(* other signup is answered 201 with the id of its record; the id of a     *)
(* 201 is greater than the id of every 201 answered before it; records     *)
(* keep their id and are never updated or deleted.                         *)
C6_EachCreated ==
  [][/\ \A i, j \in Slots :
          (reqs'[i].status = 201 /\ reqs'[j].status = 201 /\ reqs'[i].at < reqs'[j].at)
            => reqs'[i].id < reqs'[j].id
     /\ \A i \in Slots :
          (/\ Answered(i) /\ IsSignup(reqs'[i]) /\ WellFormed(reqs'[i].body)
           /\ reqs'[i].err # "ER_OTHER"
           /\ \A j \in Slots \ {i} :
                ~(IsSignup(reqs'[j]) /\ EmailOf(reqs'[j]) = EmailOf(reqs'[i])))
            => /\ reqs'[i].status = 201
               /\ \E u \in users' : u.id = reqs'[i].id /\ u.email = EmailOf(reqs'[i])
     /\ users \subseteq users'
     /\ \A u, v \in users' : u.id = v.id => u = v]_vars

(* C7, as stated: a sign-up submit of the form that passes the form's      *)
(* validation passes the server's validation too and, for an email that    *)
(* is not registered and a store that does not fail, is answered 201.      *)
C7_FormSignupCreates ==
  \A i \in Arrived :
    (reqs[i].src = "form" /\ ~reqs[i].signIn)
      => /\ reqs[i].status # 400
         /\ (reqs[i].pc = "done" /\ reqs[i].err = "" /\ reqs[i].status # 409)
              => reqs[i].status = 201

(* C8: among the valid signups with one email that have passed the        *)
(* existence check (two of them when two requests race), at most one is    *)
(* answered 201; an insert rejected by the unique index is answered 409;   *)
(* and once all of them are answered and no query of theirs failed         *)
(* otherwise, exactly one was answered 201, every other 409, and the       *)
(* email has one record.                                                   *)
C8_RaceOneWinner ==
  /\ \A i \in Slots : reqs[i].err = "ER_DUP_ENTRY" => reqs[i].status = 409
  /\ \A e \in Emails :
       LET S == {i \in Slots : IsSignup(reqs[i]) /\ EmailOf(reqs[i]) = e
                               /\ reqs[i].nins = 1}
           W == {i \in S : reqs[i].status = 201}
       IN /\ Cardinality(W) <= 1
          /\ (/\ S # {}
              /\ \A i \in S : reqs[i].pc = "done" /\ reqs[i].err \notin StoreFailures)
               => /\ Cardinality(W) = 1
                  /\ \A i \in S \ W : reqs[i].status = 409
                  /\ Cardinality({u \in users : u.email = e}) = 1

\* both requests passed the check; one was answered 201, the other 409
C8_Witness ==
  \E i, j \in Slots :
    /\ i # j /\ EmailOf(reqs[i]) = EmailOf(reqs[j])
    /\ reqs[i].nins = 1 /\ reqs[j].nins = 1
    /\ reqs[i].status = 201
    /\ reqs[j].status = 409 /\ reqs[j].err = "ER_DUP_ENTRY"

(* C9: a signup one of whose store queries fails with an error other than  *)
(* a duplicate key is answered once, with 500; the failed query is not     *)
(* issued again, the request inserts nothing, and the process keeps        *)
(* running and listening.                                                  *)
C9_StoreFailure ==
  [][\A i \in Slots :
       (IsSignup(reqs'[i]) /\ reqs'[i].err \in StoreFailures)
         => /\ reqs'[i].pc = "done" /\ reqs'[i].status = 500
            /\ reqs'[i].nresp = 1
            /\ reqs'[i].nsel = 1 /\ reqs'[i].nins <= 1
            /\ \A k \in 1..Len(dbQueue') : dbQueue'[k].req # i
            /\ reqs[i].err = "" => users' = users
            /\ proc' = "running" /\ listening']_vars

\* a signup failed with 500 and a signup that arrived after that answer
\* was answered 201
C9_Witness ==
  \E i, j \in Slots :
    /\ IsSignup(reqs[i]) /\ reqs[i].err = "ER_OTHER" /\ reqs[i].status = 500
    /\ reqs[j].arr >= reqs[i].at /\ reqs[j].status = 201

(* C10, as stated: no query of a signup request observes a missing users   *)
(* table, and a process whose store could not be reached has exited with   *)
(* a non-zero status.                                                      *)
C10_TableBeforeQueries ==
  /\ \A i \in Slots : IsSignup(reqs[i]) => reqs[i].err # "ER_NO_SUCH_TABLE"
  /\ proc = "exited" => exitCode # 0
====
